---- MODULE Spec2Model ----
(***************************************************************************)
(* playground-wgpu: the rendering session of src/playground-wgpu.          *)
(*                                                                         *)
(* The model follows the single thread of main(): State::new (swapchain,   *)
(* texture upload through texture::Texture::from_bytes, pipeline, buffers) *)
(* and then the winit event loop, whose closure runs State::resize and     *)
(* State::render to completion, one event at a time.  wgpu, winit and the  *)
(* image crate are the environment: each of their calls is modelled by the *)
(* outcomes it can return to this code.                                    *)
(***************************************************************************)
EXTENDS Integers, Sequences, FiniteSets

(* ---- bounds of the model ---- *)
\* surface widths and heights range over 0..MaxDim
MaxDim == 2
\* decoded image widths and heights range over 1..MaxImgDim
MaxImgDim == 2
\* events the windowing system holds that the loop has not yet taken
MaxPending == 2
\* swapchains created over a run (State::new creates the first)
MaxSwapChains == 3
\* frames rendered over a run
MaxFrames == 2

VARIABLES
    pc,              \* position of the main thread
    panic,           \* "none", or the message of the panic that ended the process
    control_flow,    \* winit ControlFlow: "Poll" or "Exit"
    pending,         \* events delivered by the windowing system, oldest first
    window_size,     \* the surface size last reported to the program
    diffuse_bytes,   \* the bytes handed to Texture::from_bytes
    img,             \* the DynamicImage decoded by image::load_from_memory
    tex_result,      \* what Texture::from_bytes returned
    device,          \* objects the wgpu Device has created, by kind
    queue,           \* command buffers submitted to the wgpu Queue, in order
    size,            \* State.size
    sc_desc,         \* State.sc_desc
    swap_chain,      \* State.swap_chain
    num_indices,     \* State.num_indices
    diffuse_texture, \* State.diffuse_texture
    frame,           \* the SwapChainOutput held by the running render call
    encoder,         \* the CommandEncoder held by the running render call
    renders_in_progress, \* State::render calls entered and not yet returned
    last_resize      \* history: whether the last State::resize call was given
                     \* the size already stored ("same") or another ("changed")

vars == <<pc, panic, control_flow, pending, window_size,
          diffuse_bytes, img, tex_result, device, queue, size, sc_desc,
          swap_chain, num_indices, diffuse_texture, frame, encoder,
          renders_in_progress, last_resize>>

\* an Option that is None, a field not yet initialised
None == [absent |-> TRUE]

Present(v) == "absent" \notin DOMAIN v

NoPanic == "none"

(* ---- constants of the program ---- *)
INDICES == <<0, 1, 4, 1, 2, 4, 2, 3, 4>>

ClearColor == "Color{r:0.1,g:0.2,b:0.3,a:1.0}"

(* ---- values ---- *)
Dims == 0..MaxDim

Sizes == [width : Dims, height : Dims]

NonZeroSizes == {s \in Sizes : s.width > 0 /\ s.height > 0}

\* the variants of image::DynamicImage
ColorTypes == {"ImageLuma8", "ImageLumaA8", "ImageRgb8", "ImageRgba8",
               "ImageBgr8", "ImageBgra8"}

ImgDims == 1..MaxImgDim

\* byte strings, abstracted to what the decoder makes of them
MalformedBytes == [decodable |-> FALSE, color |-> "none", width |-> 0, height |-> 0]

WellFormedBytes == [decodable : {TRUE}, color : ColorTypes,
                    width : ImgDims, height : ImgDims]

ByteStrings == {MalformedBytes} \cup WellFormedBytes

EventKinds == {"Resized", "ScaleFactorChanged", "RedrawRequested",
               "MainEventsCleared", "CloseRequested", "KeyboardInput", "Other"}

NoDevice == [swap_chains |-> 0, textures |-> 0, buffers |-> 0, encoders |-> 0,
             views |-> 0, samplers |-> 0, bind_groups |-> 0, pipelines |-> 0,
             acquires |-> 0]

NoEncoder == [state |-> "none", label |-> "none", cmds |-> <<>>, in_pass |-> FALSE]

(* ---- image crate ---- *)
\* image::load_from_memory: Ok(DynamicImage) or Err(ImageError)
load_from_memory(bytes) ==
    IF bytes.decodable
    THEN [tag |-> "Ok", color |-> bytes.color, width |-> bytes.width, height |-> bytes.height]
    ELSE [tag |-> "Err", error |-> "ImageError"]

\* DynamicImage::as_rgba8: Some only for the ImageRgba8 variant
as_rgba8(image) == IF image.color = "ImageRgba8" THEN "Some" ELSE "None"

(* ---- the process ---- *)
Running == panic = NoPanic /\ control_flow # "Exit"

\* main.rs 120: resources/happy-tree.png, a well-formed RGBA image
HappyTree == [decodable |-> TRUE, color |-> "ImageRgba8",
              width |-> MaxImgDim, height |-> 1]

InitWith(bytes) ==
    /\ pc = "start"
    /\ panic = NoPanic
    /\ control_flow = "Poll"
    /\ pending = <<>>
    /\ window_size \in NonZeroSizes
    /\ diffuse_bytes \in bytes
    /\ img = [tag |-> "None"]
    /\ tex_result = [tag |-> "NotReturned"]
    /\ device = NoDevice
    /\ queue = <<>>
    /\ size = None
    /\ sc_desc = None
    /\ swap_chain = None
    /\ num_indices = 0
    /\ diffuse_texture = None
    /\ frame = None
    /\ encoder = NoEncoder
    /\ renders_in_progress = 0
    /\ last_resize = "none"

\* the program as built: the embedded image is the one handed to from_bytes
Init == InitWith({HappyTree})

\* Texture::from_bytes on any byte string
InitTexture == InitWith(ByteStrings)

(* ---- wgpu::Device::create_swap_chain ---- *)
\* A zero extent is invalid for the backend: the call panics, or the backend
\* goes on with a swapchain of that extent.
create_swap_chain(desc) ==
    \/ /\ swap_chain' = [id |-> device.swap_chains + 1,
                         width |-> desc.width, height |-> desc.height]
       /\ device' = [device EXCEPT !.swap_chains = @ + 1]
       /\ panic' = panic
    \/ /\ desc.width = 0 \/ desc.height = 0
       /\ panic' = "create_swap_chain: zero extent"
       /\ UNCHANGED <<swap_chain, device>>

(* ---- State::new ---- *)
\* main.rs 85-117: read the window size, fill the descriptor, create the swapchain
NewSwapChain ==
    /\ pc = "start" /\ Running
    /\ size' = window_size
    /\ num_indices' = Len(INDICES)
    /\ sc_desc' = [usage |-> "OUTPUT_ATTACHMENT", format |-> "Bgra8UnormSrgb",
                   width |-> window_size.width, height |-> window_size.height,
                   present_mode |-> "Fifo"]
    /\ create_swap_chain(sc_desc')
    /\ pc' = "from_bytes"
    /\ UNCHANGED <<control_flow, pending, window_size,
                   diffuse_bytes, img, tex_result, queue, diffuse_texture,
                   frame, encoder, renders_in_progress, last_resize>>

(* ---- texture::Texture ---- *)
\* texture.rs 55-69: the one command the upload encoder records
CopyBufferToTexture(image) ==
    [op |-> "copy_buffer_to_texture", offset |-> 0,
     bytes_per_row |-> 4 * image.width, rows_per_image |-> image.height,
     mip_level |-> 0, array_layer |-> 0,
     extent |-> <<image.width, image.height, 1>>]

\* texture.rs 31-46, 72-83: the texture, its view and its sampler
TextureOf(image) ==
    [size |-> <<image.width, image.height, 1>>, dimension |-> "D2",
     format |-> "Rgba8UnormSrgb", usage |-> {"SAMPLED", "COPY_DST"},
     view |-> "default", sampler |-> "ClampToEdge/Linear/Nearest/Nearest"]

\* from_bytes that creates the device texture before it decodes the bytes
from_bytes_creates_first ==
    /\ pc = "from_bytes" /\ Running
    /\ device' = [device EXCEPT !.textures = @ + 1]
    /\ LET decoded == load_from_memory(diffuse_bytes) IN
         IF decoded.tag = "Err"
         THEN /\ tex_result' = [tag |-> "Err", error |-> decoded.error]
              /\ img' = img
              /\ pc' = "unwrap"
         ELSE /\ img' = decoded
              /\ tex_result' = tex_result
              /\ pc' = "from_image"
    /\ UNCHANGED <<panic, control_flow, pending, window_size,
                   diffuse_bytes, queue, size, sc_desc, swap_chain,
                   num_indices, diffuse_texture, frame, encoder,
                   renders_in_progress, last_resize>>

\* texture.rs 16-22, up to the call of from_image: decode, `?` returns the error
from_bytes ==
    /\ pc = "from_bytes" /\ Running
    /\ LET decoded == load_from_memory(diffuse_bytes) IN
         IF decoded.tag = "Err"
         THEN /\ tex_result' = [tag |-> "Err", error |-> decoded.error]
              /\ img' = img
              /\ pc' = "unwrap"
         ELSE /\ img' = decoded
              /\ tex_result' = tex_result
              /\ pc' = "from_image"
    /\ UNCHANGED <<panic, control_flow, pending, window_size,
                   diffuse_bytes, device, queue, size, sc_desc, swap_chain,
                   num_indices, diffuse_texture, frame, encoder,
                   renders_in_progress, last_resize>>

\* from_image that submits the copy itself
from_image_submits ==
    /\ pc = "from_image" /\ Running
    /\ as_rgba8(img) = "Some"
    /\ device' = [device EXCEPT !.textures = @ + 1, !.buffers = @ + 1,
                                !.encoders = @ + 1, !.views = @ + 1,
                                !.samplers = @ + 1]
    /\ tex_result' = [tag |-> "Ok", texture |-> TextureOf(img),
                      cmd_buffer |-> [label |-> "texture_buffer_copy_encoder",
                                      cmds |-> <<CopyBufferToTexture(img)>>]]
    /\ queue' = Append(queue, tex_result'.cmd_buffer)
    /\ pc' = "unwrap"
    /\ UNCHANGED <<panic, control_flow, pending, window_size,
                   diffuse_bytes, img, size, sc_desc, swap_chain,
                   num_indices, diffuse_texture, frame, encoder,
                   renders_in_progress, last_resize>>

\* texture.rs 24-93: as_rgba8().unwrap(), then texture, staging buffer, encoder,
\* copy, finish, view, sampler; the command buffer is returned, not submitted
from_image ==
    /\ pc = "from_image" /\ Running
    /\ IF as_rgba8(img) = "None"
       THEN /\ panic' = "called Option::unwrap() on a None value"
            /\ UNCHANGED <<pc, tex_result, device>>
       ELSE /\ device' = [device EXCEPT !.textures = @ + 1, !.buffers = @ + 1,
                                        !.encoders = @ + 1, !.views = @ + 1,
                                        !.samplers = @ + 1]
            /\ tex_result' = [tag |-> "Ok", texture |-> TextureOf(img),
                              cmd_buffer |-> [label |-> "texture_buffer_copy_encoder",
                                              cmds |-> <<CopyBufferToTexture(img)>>]]
            /\ pc' = "unwrap"
            /\ panic' = panic
    /\ UNCHANGED <<control_flow, pending, window_size,
                   diffuse_bytes, img, queue, size, sc_desc, swap_chain,
                   num_indices, diffuse_texture, frame, encoder,
                   renders_in_progress, last_resize>>

\* main.rs 121: .unwrap() of an Err result
NewUnwrapErr ==
    /\ pc = "unwrap" /\ Running
    /\ tex_result.tag = "Err"
    /\ panic' = "called Result::unwrap() on an Err value"
    /\ UNCHANGED <<pc, control_flow, pending, window_size,
                   diffuse_bytes, img, tex_result, device, queue, size, sc_desc,
                   swap_chain, num_indices, diffuse_texture, frame, encoder,
                   renders_in_progress, last_resize>>

\* main.rs 121-256: unwrap the texture, submit its copy, then bind group,
\* pipeline, vertex and index buffers; main.rs 316-318: the loop starts
NewFinish ==
    /\ pc = "unwrap" /\ Running
    /\ tex_result.tag = "Ok"
    /\ diffuse_texture' = tex_result.texture
    /\ queue' = Append(queue, tex_result.cmd_buffer)
    /\ device' = [device EXCEPT !.bind_groups = @ + 1, !.pipelines = @ + 1,
                                !.buffers = @ + 2]
    /\ pc' = "idle"
    /\ UNCHANGED <<panic, control_flow, pending, window_size,
                   diffuse_bytes, img, tex_result, size, sc_desc, swap_chain,
                   num_indices, frame, encoder, renders_in_progress, last_resize>>

(* ---- State::resize ---- *)
\* resize that updates the descriptor and leaves the old swapchain in place
resize_keeps_swap_chain(new_size) ==
    /\ last_resize' = IF new_size = size THEN "same" ELSE "changed"
    /\ size' = new_size
    /\ sc_desc' = [sc_desc EXCEPT !.width = new_size.width,
                                  !.height = new_size.height]
    /\ UNCHANGED <<swap_chain, device, panic>>

\* resize that returns early when the size is the one already stored
resize_skips_same_size(new_size) ==
    /\ last_resize' = IF new_size = size THEN "same" ELSE "changed"
    /\ IF new_size = size
       THEN UNCHANGED <<size, sc_desc, swap_chain, device, panic>>
       ELSE /\ size' = new_size
            /\ sc_desc' = [sc_desc EXCEPT !.width = new_size.width,
                                          !.height = new_size.height]
            /\ create_swap_chain(sc_desc')

\* main.rs 258-263
resize(new_size) ==
    /\ last_resize' = IF new_size = size THEN "same" ELSE "changed"
    /\ size' = new_size
    /\ sc_desc' = [sc_desc EXCEPT !.width = new_size.width,
                                  !.height = new_size.height]
    /\ create_swap_chain(sc_desc')

(* ---- the windowing system ---- *)
\* an event arrives; the loop takes it when the closure has returned
Post ==
    /\ Running
    /\ Len(pending) < MaxPending
    /\ \E k \in EventKinds : pending' = Append(pending, k)
    /\ UNCHANGED <<pc, panic, control_flow, window_size,
                   diffuse_bytes, img, tex_result, device, queue, size, sc_desc,
                   swap_chain, num_indices, diffuse_texture, frame, encoder,
                   renders_in_progress, last_resize>>

(* ---- main: the event loop's closure, main.rs 318-356 ---- *)
\* a loop that hands over the next event while a handler is still running
LoopReady_reentrant ==
    /\ pc \notin {"start", "from_bytes", "from_image", "unwrap"}
    /\ Running /\ pending # <<>>

\* event_loop.run calls the closure with the next event once the previous
\* call has returned
LoopReady == pc = "idle" /\ Running /\ pending # <<>>

Take(kind) == LoopReady /\ Head(pending) = kind /\ pending' = Tail(pending)

\* main.rs 326
HandleCloseRequested ==
    /\ Take("CloseRequested")
    /\ control_flow' = "Exit"
    /\ UNCHANGED <<pc, panic, window_size, diffuse_bytes, img,
                   tex_result, device, queue, size, sc_desc, swap_chain,
                   num_indices, diffuse_texture, frame, encoder,
                   renders_in_progress, last_resize>>

\* main.rs 327-334
HandleKeyboardInput ==
    /\ Take("KeyboardInput")
    /\ \E state \in {"Pressed", "Released"}, key \in {"Escape", "A"} :
         control_flow' = IF state = "Pressed" /\ key = "Escape"
                         THEN "Exit" ELSE control_flow
    /\ UNCHANGED <<pc, panic, window_size, diffuse_bytes, img,
                   tex_result, device, queue, size, sc_desc, swap_chain,
                   num_indices, diffuse_texture, frame, encoder,
                   renders_in_progress, last_resize>>

\* main.rs 335-337
HandleResized ==
    /\ Take("Resized")
    /\ device.swap_chains < MaxSwapChains
    /\ \E physical_size \in Sizes :
         /\ window_size' = physical_size
         /\ resize(physical_size)
    /\ UNCHANGED <<pc, control_flow, diffuse_bytes, img,
                   tex_result, queue, num_indices, diffuse_texture, frame,
                   encoder, renders_in_progress>>

\* main.rs 338-341
HandleScaleFactorChanged ==
    /\ Take("ScaleFactorChanged")
    /\ device.swap_chains < MaxSwapChains
    /\ \E new_inner_size \in Sizes :
         /\ window_size' = new_inner_size
         /\ resize(new_inner_size)
    /\ UNCHANGED <<pc, control_flow, diffuse_bytes, img,
                   tex_result, queue, num_indices, diffuse_texture, frame,
                   encoder, renders_in_progress>>

(* ---- State::render, main.rs 271-308 ---- *)
RenderUnchanged ==
    UNCHANGED <<control_flow, window_size, diffuse_bytes, img, tex_result,
                size, sc_desc, swap_chain, num_indices, diffuse_texture,
                last_resize>>

\* a draw that stops one index short
DrawIndexed_short ==
    [op |-> "draw_indexed", indices |-> <<0, num_indices - 1>>,
     base_vertex |-> 0, instances |-> <<0, 1>>]

\* main.rs 304: the draw command render records
DrawIndexed ==
    [op |-> "draw_indexed", indices |-> <<0, num_indices>>, base_vertex |-> 0,
     instances |-> <<0, 1>>]

\* a command is recorded into the open render pass
Record(at, cmd, to) ==
    /\ pc = at /\ Running
    /\ encoder.state = "open" /\ encoder.in_pass
    /\ encoder' = [encoder EXCEPT !.cmds = Append(@, cmd)]
    /\ pc' = to
    /\ UNCHANGED <<panic, pending, device, queue, frame,
                   renders_in_progress>>
    /\ RenderUnchanged

\* main.rs 346-348, 272-275: RedrawRequested runs update() and enters render;
\* get_next_texture returns the next image of the live swapchain
RenderAcquire ==
    /\ Take("RedrawRequested")
    /\ Len(queue) < 1 + MaxFrames
    /\ renders_in_progress' = renders_in_progress + 1
    /\ frame' = [swap_chain |-> swap_chain.id, width |-> swap_chain.width,
                 height |-> swap_chain.height]
    /\ device' = [device EXCEPT !.acquires = @ + 1]
    /\ pc' = "acquired"
    /\ UNCHANGED <<panic, queue, encoder>>
    /\ RenderUnchanged

\* an acquisition failure that drops the frame and returns to the loop
RenderAcquireTimeout_drops_frame ==
    /\ Take("RedrawRequested")
    /\ Len(queue) < 1 + MaxFrames
    /\ device' = [device EXCEPT !.acquires = @ + 1]
    /\ UNCHANGED <<pc, panic, queue, frame, encoder, renders_in_progress>>
    /\ RenderUnchanged

\* main.rs 272-275: get_next_texture returns Err (timeout, surface lost) and
\* .expect panics
RenderAcquireTimeout ==
    /\ Take("RedrawRequested")
    /\ Len(queue) < 1 + MaxFrames
    /\ renders_in_progress' = renders_in_progress + 1
    /\ device' = [device EXCEPT !.acquires = @ + 1]
    /\ panic' = "Timeout getting texture"
    /\ UNCHANGED <<pc, queue, frame, encoder>>
    /\ RenderUnchanged

\* main.rs 277-281
CreateCommandEncoder ==
    /\ pc = "acquired" /\ Running
    /\ encoder' = [state |-> "open", label |-> "Render Encoder", cmds |-> <<>>,
                   in_pass |-> FALSE]
    /\ device' = [device EXCEPT !.encoders = @ + 1]
    /\ pc' = "encoder"
    /\ UNCHANGED <<panic, pending, queue, frame,
                   renders_in_progress>>
    /\ RenderUnchanged

\* a render pass that keeps the previous contents of its target
BeginRenderPass_loads ==
    /\ pc = "encoder" /\ Running
    /\ encoder.state = "open" /\ ~encoder.in_pass
    /\ encoder' = [encoder EXCEPT
                     !.in_pass = TRUE,
                     !.cmds = Append(@, [op |-> "begin_render_pass",
                                         attachment |-> "frame.view",
                                         load_op |-> "Load", store_op |-> "Store",
                                         clear_color |-> ClearColor])]
    /\ pc' = "pass"
    /\ UNCHANGED <<panic, pending, device, queue, frame,
                   renders_in_progress>>
    /\ RenderUnchanged

\* main.rs 284-298
BeginRenderPass ==
    /\ pc = "encoder" /\ Running
    /\ encoder.state = "open" /\ ~encoder.in_pass
    /\ encoder' = [encoder EXCEPT
                     !.in_pass = TRUE,
                     !.cmds = Append(@, [op |-> "begin_render_pass",
                                         attachment |-> "frame.view",
                                         load_op |-> "Clear", store_op |-> "Store",
                                         clear_color |-> ClearColor])]
    /\ pc' = "pass"
    /\ UNCHANGED <<panic, pending, device, queue, frame,
                   renders_in_progress>>
    /\ RenderUnchanged

\* main.rs 300
SetPipeline ==
    Record("pass", [op |-> "set_pipeline", pipeline |-> "render_pipeline"],
           "pipeline")

\* main.rs 301
SetVertexBuffer ==
    Record("pipeline", [op |-> "set_vertex_buffer", slot |-> 0,
                        buffer |-> "vertex_buffer", offset |-> 0], "vertex")

\* main.rs 302
SetIndexBuffer ==
    Record("vertex", [op |-> "set_index_buffer", buffer |-> "index_buffer",
                      offset |-> 0], "index")

\* main.rs 303
SetBindGroup ==
    Record("index", [op |-> "set_bind_group", index |-> 0,
                     bind_group |-> "diffuse_bind_group"], "bind")

\* main.rs 304
DrawIndexedCall == Record("bind", DrawIndexed, "drawn")

\* main.rs 305: the render pass is dropped at the end of its block
EndRenderPass ==
    /\ pc = "drawn" /\ Running
    /\ encoder.state = "open" /\ encoder.in_pass
    /\ encoder' = [encoder EXCEPT !.in_pass = FALSE,
                                  !.cmds = Append(@, [op |-> "end_render_pass"])]
    /\ pc' = "ended"
    /\ UNCHANGED <<panic, pending, device, queue, frame,
                   renders_in_progress>>
    /\ RenderUnchanged

\* main.rs 307-308: finish the encoder, submit its command buffer, return;
\* the frame is dropped, which presents it
Submit ==
    /\ pc = "ended" /\ Running
    /\ queue' = Append(queue, [label |-> encoder.label, cmds |-> encoder.cmds])
    /\ encoder' = NoEncoder
    /\ frame' = None
    /\ renders_in_progress' = renders_in_progress - 1
    /\ pc' = "idle"
    /\ UNCHANGED <<panic, pending, device>>
    /\ RenderUnchanged

\* main.rs 350-353: request_redraw makes the windowing system emit
\* RedrawRequested right after MainEventsCleared, ahead of later events
HandleMainEventsCleared ==
    /\ LoopReady /\ Head(pending) = "MainEventsCleared"
    /\ pending' = <<"RedrawRequested">> \o Tail(pending)
    /\ UNCHANGED <<pc, panic, control_flow, window_size, diffuse_bytes, img,
                   tex_result, device, queue, size, sc_desc, swap_chain,
                   num_indices, diffuse_texture, frame, encoder,
                   renders_in_progress, last_resize>>

\* main.rs 342, 354: every other event, and window events of another window
HandleOther ==
    /\ Take("Other")
    /\ UNCHANGED <<pc, panic, control_flow, window_size,
                   diffuse_bytes, img, tex_result, device, queue, size, sc_desc,
                   swap_chain, num_indices, diffuse_texture, frame, encoder,
                   renders_in_progress, last_resize>>

Next ==
    \/ NewSwapChain
    \/ from_bytes
    \/ from_image
    \/ NewFinish
    \/ Post
    \/ HandleCloseRequested
    \/ HandleKeyboardInput
    \/ HandleResized
    \/ HandleScaleFactorChanged
    \/ HandleMainEventsCleared
    \/ HandleOther
    \/ RenderAcquire
    \/ RenderAcquireTimeout
    \/ CreateCommandEncoder
    \/ BeginRenderPass
    \/ SetPipeline
    \/ SetVertexBuffer
    \/ SetIndexBuffer
    \/ SetBindGroup
    \/ DrawIndexedCall
    \/ EndRenderPass
    \/ Submit

Spec == Init /\ [][Next]_vars

\* State::new up to the start of the loop, for any bytes given to from_bytes
NextTexture ==
    \/ NewSwapChain
    \/ from_bytes
    \/ from_image
    \/ NewUnwrapErr
    \/ NewFinish

SpecTexture == InitTexture /\ [][NextTexture]_vars

(***************************************************************************)
(* Properties                                                              *)
(***************************************************************************)
NonZero(s) == s.width > 0 /\ s.height > 0

Extent(r) == [width |-> r.width, height |-> r.height]

\* a step of the loop that calls State::resize
ResizeCall ==
    /\ LoopReady
    /\ Head(pending) \in {"Resized", "ScaleFactorChanged"}
    /\ pending' = Tail(pending)

\* C1: once State::new has created the swapchain, and after any resize to a
\* non-zero size, the stored size, the descriptor's width and height and the
\* extent of the live swapchain all equal the surface size last observed, and
\* a frame acquired by render has that extent and comes from that swapchain.
C1_SwapChainMatchesSurface ==
    (Present(swap_chain) /\ NonZero(window_size)) =>
        /\ size = window_size
        /\ Extent(sc_desc) = window_size
        /\ Extent(swap_chain) = window_size
        /\ Present(frame) => /\ Extent(frame) = window_size
                             /\ frame.swap_chain = swap_chain.id

\* C1 witness: a frame is acquired after a resize to another non-zero size
C1_Witness ==
    /\ Present(frame)
    /\ last_resize = "changed"
    /\ NonZero(window_size)
    /\ swap_chain.id > 1

\* C2 as stated: a resize to the size already stored recreates nothing and
\* does no device work; descriptor and stored size stay as they are.
C2_SameSizeResizeIsNoOp ==
    [][(ResizeCall /\ window_size' = size) =>
          /\ swap_chain' = swap_chain
          /\ device' = device
          /\ sc_desc' = sc_desc
          /\ size' = size]_vars

\* C2 amended: a resize to the size already stored leaves the descriptor and
\* the stored size as they are, and for a non-zero size it calls
\* create_swap_chain once more and installs a new swapchain of that extent.
C2_SameSizeResizeRecreates ==
    [][(ResizeCall /\ window_size' = size) =>
          /\ sc_desc' = sc_desc
          /\ size' = size
          /\ NonZero(size) =>
               /\ device'.swap_chains = device.swap_chains + 1
               /\ swap_chain'.id # swap_chain.id
               /\ Extent(swap_chain') = Extent(swap_chain)
               /\ panic' = NoPanic]_vars

\* C2 witness: the last resize call was given the stored, non-zero size
C2_Witness ==
    /\ last_resize = "same"
    /\ NonZero(size)
    /\ swap_chain.id > 1

\* C3: resize never fails, and no zero width or height reaches the
\* descriptor or the swapchain.
C3_ZeroSizeIsClamped ==
    Present(sc_desc) =>
        /\ sc_desc.width >= 1 /\ sc_desc.height >= 1
        /\ swap_chain.width >= 1 /\ swap_chain.height >= 1
        /\ panic # "create_swap_chain: zero extent"

TimeoutPanic == "Timeout getting texture"

\* a step in which get_next_texture was called and gave no frame
AcquireFails ==
    /\ device'.acquires = device.acquires + 1
    /\ ~Present(frame')

\* C4 as stated: a failed acquisition is an error outcome the loop survives.
C4_AcquireFailureIsSurvived == panic # TimeoutPanic

\* C4 amended: a failed acquisition is not retried and records and submits
\* nothing, but it is not returned to the caller: render panics with
\* "Timeout getting texture", which ends the process, so no later event is
\* handled.
C4_AcquireFailureIsFatal ==
    /\ [][AcquireFails =>
            /\ panic' = TimeoutPanic
            /\ queue' = queue
            /\ encoder' = NoEncoder
            /\ device'.encoders = device.encoders]_vars
    /\ [][panic = TimeoutPanic => vars' = vars]_vars
    /\ [](panic = TimeoutPanic => ~Present(frame) /\ encoder = NoEncoder)

\* C4 witness: the process has ended on a failed acquisition while events
\* are still waiting
C4_Witness == panic = TimeoutPanic /\ pending # <<>>

RenderBuffers == {i \in 1..Len(queue) : queue[i].label = "Render Encoder"}

Draws(cmds) == {j \in 1..Len(cmds) : cmds[j].op = "draw_indexed"}

\* C5: every submitted render command buffer holds exactly one indexed draw,
\* over indices 0..num_indices with base vertex 0 and instances 0..1, and
\* num_indices is the length of INDICES, 9, from construction on.
C5_OneDrawOverAllIndices ==
    /\ Present(swap_chain) => num_indices = Len(INDICES) /\ num_indices = 9
    /\ \A i \in RenderBuffers :
         LET cmds == queue[i].cmds IN
           /\ Cardinality(Draws(cmds)) = 1
           /\ \A j \in Draws(cmds) :
                /\ cmds[j].indices = <<0, Len(INDICES)>>
                /\ cmds[j].base_vertex = 0
                /\ cmds[j].instances = <<0, 1>>

\* C5 witness: a frame has been rendered after a resize
C5_Witness == RenderBuffers # {} /\ swap_chain.id > 1

InNew == pc \in {"start", "from_bytes", "from_image", "unwrap"}

\* C6: nothing is submitted while from_bytes / from_image run; State::new
\* submits the returned copy command buffer once, as the first submission,
\* and every later submission is a render command buffer.
C6_CopySubmittedOnceByNew ==
    /\ InNew => queue = <<>>
    /\ ~InNew =>
         /\ Len(queue) >= 1
         /\ queue[1] = tex_result.cmd_buffer
         /\ queue[1].cmds[1].op = "copy_buffer_to_texture"
         /\ \A i \in 2..Len(queue) : queue[i].label = "Render Encoder"

\* C6 witness: the copy and a render command buffer have been submitted
C6_Witness == Len(queue) >= 2 /\ queue[1].label = "texture_buffer_copy_encoder"

\* C7: from_bytes on malformed bytes returns the decoder's error and has
\* created no texture, buffer, encoder, view or sampler; on a well-formed
\* RGBA image of W x H it returns a texture of extent (W, H, 1).
C7_DecodeErrorCreatesNothing ==
    /\ (~diffuse_bytes.decodable /\ pc \notin {"start", "from_bytes"}) =>
         /\ tex_result = [tag |-> "Err", error |-> "ImageError"]
         /\ device.textures = 0 /\ device.buffers = 0 /\ device.encoders = 0
         /\ device.views = 0 /\ device.samplers = 0
         /\ queue = <<>>
    /\ (diffuse_bytes.decodable /\ diffuse_bytes.color = "ImageRgba8"
          /\ pc \notin {"start", "from_bytes", "from_image"}) =>
         /\ tex_result.tag = "Ok"
         /\ tex_result.texture.size =
              <<diffuse_bytes.width, diffuse_bytes.height, 1>>
         /\ device.textures = 1

\* C7 witness: from_bytes has returned on malformed bytes
C7_Witness == ~diffuse_bytes.decodable /\ tex_result.tag = "Err"

\* C8: a decoded image that is not RGBA8 makes from_image return Err, without
\* aborting the call and without creating a texture.
C8_NonRgbaReturnsErr ==
    (img.tag = "Ok" /\ as_rgba8(img) = "None") =>
        /\ panic = NoPanic
        /\ pc # "from_image" => tex_result.tag = "Err" /\ device.textures = 0

RenderOps == <<"begin_render_pass", "set_pipeline", "set_vertex_buffer",
               "set_index_buffer", "set_bind_group", "draw_indexed",
               "end_render_pass">>

Ops(cmds) == [i \in 1..Len(cmds) |-> cmds[i].op]

\* C9: a render call that acquired a frame opens one encoder, records
\* begin pass (clear), set pipeline, vertex buffer at slot 0, index buffer,
\* bind group 0, one indexed draw, end pass, in that order, and then submits
\* that one command buffer and returns in the same step; nothing is
\* submitted while the pass is open.
C9_RenderRecordsInOrder ==
    /\ [](\A i \in RenderBuffers :
            /\ Ops(queue[i].cmds) = RenderOps
            /\ queue[i].cmds[1].load_op = "Clear"
            /\ queue[i].cmds[3].slot = 0
            /\ queue[i].cmds[5].index = 0)
    /\ [](encoder.state = "open" =>
            /\ Present(frame)
            /\ Ops(encoder.cmds) = SubSeq(RenderOps, 1, Len(encoder.cmds))
            /\ encoder.in_pass <=> Len(encoder.cmds) \in 1..6)
    /\ [][(encoder.state = "none" /\ encoder'.state = "open") =>
            /\ Present(frame)
            /\ encoder'.cmds = <<>>
            /\ device'.encoders = device.encoders + 1]_vars
    /\ [][(~InNew /\ queue' # queue) =>
            /\ Len(queue') = Len(queue) + 1
            /\ encoder.state = "open" /\ ~encoder.in_pass
            /\ encoder' = NoEncoder
            /\ ~Present(frame')
            /\ pc' = "idle"
            /\ device' = device]_vars

\* C9 witness: a whole frame has been recorded and submitted
C9_Witness == pc = "idle" /\ RenderBuffers # {} /\ encoder = NoEncoder

\* C10: the swapchain is replaced only while no frame is acquired and no
\* encoder is open, whatever events arrive meanwhile, and no more than one
\* render call is in progress.
C10_RecreateOnlyBetweenFrames ==
    /\ [][(Present(swap_chain) /\ swap_chain' # swap_chain) =>
            /\ pc = "idle"
            /\ ~Present(frame)
            /\ encoder = NoEncoder
            /\ renders_in_progress = 0]_vars
    /\ [](renders_in_progress <= 1)

\* C10 witness: a resize event waits while a frame is being recorded
C10_Witness ==
    /\ Present(frame)
    /\ encoder.in_pass
    /\ pending # <<>>
    /\ Head(pending) \in {"Resized", "ScaleFactorChanged"}
====
